---- MODULE Spec2Model ----
(***************************************************************************)
(* Presence Synchronization Engine of discord_presence (src/src/main.rs).  *)
(*                                                                         *)
(* The state is the App struct, the wall clock, the transport calls made   *)
(* by the last handler, and whether the process has panicked.  One action  *)
(* is one call of App::update (one egui frame) handling one input event,   *)
(* including the load_preset() call that ends every frame.  Init is the    *)
(* state App::new leaves.                                                  *)
(***************************************************************************)
EXTENDS Integers, Sequences, FiniteSets, TLC

VARIABLES
  app,       \* the App struct (main.rs:43-59)
  now,       \* the wall clock (epoch seconds) when the last handler returned
  panicked,  \* "" while the process runs, else the message of the expect() that failed
  ops,       \* the transport calls the last handler made, in order
  event      \* the input event the last frame handled

vars == <<app, now, panicked, ops, event>>

----------------------------------------------------------------------------
(* Bounds and value sets *)

\* the clock runs over T0 .. T0 + MaxTick
MaxTick == 1

SecondsPerHour == 3600
SecondsPerMinute == 60
SecondsPerDay == 24 * SecondsPerHour

\* the instant App::new reads the clock first: one second before a UTC midnight
T0 == 2 * SecondsPerDay - 1
\* the local UTC offset in effect (one hour east)
UtcOffset == 1 * SecondsPerHour
Clock == T0 .. (T0 + MaxTick)

IdValues == {"", "A", "B"}
DetailsValues == {""}
StateValues == {"", "Idle"}
PartyValues == {0, 2}
PartyOfValues == {5}
\* what the user types into the key and the label of each image slot and into
\* the label and the url of each button slot
LargeImageValues == [key |-> {"art"}, text |-> {""}]
SmallImageValues == [key |-> {""}, text |-> {""}]
Button1Values == [label |-> {""}, url |-> {""}]
Button2Values == [label |-> {""}, url |-> {"https://b"}]
TimestampEnum == {"None", "LocalTime", "CustomTimeStamp", "SinceStart", "SinceLastUpdate"}

\* Rust Option<T>: None is the empty sequence, Some(v) the one-element sequence
None == <<>>
Some(v) == <<v>>

----------------------------------------------------------------------------
(* The transport: discord_rich_presence::DiscordIpcClient as main.rs uses it *)

\* DiscordIpcClient::new(id): a handle bound to id, not yet connected
DiscordIpcClient_new(client_id) == [client_id |-> client_id, open |-> FALSE]

\* client.connect(): the handshake; host_ok says whether the host accepts it
client_connect(client, host_ok) ==
  [client |-> [client EXCEPT !.open = host_ok],
   ok     |-> host_ok,
   entry  |-> [op |-> "connect", id |-> client.client_id, ok |-> host_ok]]

\* client.close(): fails on a handle that is not open or when the transport fails
client_close(client, host_ok) ==
  LET ok == client.open /\ host_ok
  IN [client |-> [client EXCEPT !.open = IF ok THEN FALSE ELSE client.open],
      ok     |-> ok,
      entry  |-> [op |-> "close", id |-> client.client_id, ok |-> ok]]

\* client.set_activity(activity) at instant at: a write on the handle
client_set_activity(client, activity, host_ok, at) ==
  LET ok == client.open /\ host_ok
  IN [ok    |-> ok,
      entry |-> [op |-> "set_activity", id |-> client.client_id, open |-> client.open,
                 ok |-> ok, at |-> at, activity |-> activity]]

----------------------------------------------------------------------------
(* Timestamp Resolver: the match at the head of set_presence *)

\* chrono's format("%H") / ("%M") / ("%S"): two decimal digits, zero padded
Format2(n) == <<n \div 10, n % 10>>
\* str::parse::<i64>() of such a text
ParseI64(digits) == digits[1] * 10 + digits[2]

\* the fields of Local::now() read at UTC instant t
LocalSecondOfDay(t) == (t + UtcOffset) % SecondsPerDay
LocalHour(t) == LocalSecondOfDay(t) \div SecondsPerHour
LocalMinute(t) == (LocalSecondOfDay(t) % SecondsPerHour) \div SecondsPerMinute
LocalSecond(t) == LocalSecondOfDay(t) % SecondsPerMinute

\* Utc::now().date(), as days since the epoch, and its midnight
DateOf(t) == t \div SecondsPerDay
MidnightUtc(date) == date * SecondsPerDay

\* The clock readings one handler makes, in program order (a record clk):
\*   date     Utc::now().date()             (App::new only)
\*   started  started: Utc::now()           (App::new only)
\*   update   last_update = Utc::now()
\*   hour, minute, second   the three Local::now() of LocalTime
\*   utc      Utc::now().timestamp() of LocalTime
\*   write    the instant set_activity writes the payload
\* The clock never runs backwards, and may advance between any two readings.
Readings ==
  [from \in Clock |->
     {[date |-> s[1], started |-> s[2], update |-> s[3], hour |-> s[4],
       minute |-> s[5], second |-> s[6], utc |-> s[7], write |-> s[8]] :
        s \in {q \in [1..8 -> from..(T0 + MaxTick)] : \A i \in 1..7 : q[i] <= q[i+1]}}]

\* the Timestamps value set_presence builds (end is never set)
Timestamp_of(self, clk) ==
  LET mode == self.timestamp.timestamp
  IN CASE mode = "LocalTime" ->
            LET hour == ParseI64(Format2(LocalHour(clk.hour))) * SecondsPerHour
                minute == ParseI64(Format2(LocalMinute(clk.minute))) * SecondsPerMinute
                second == ParseI64(Format2(LocalSecond(clk.second)))
                local_time == clk.utc - (hour + minute + second)
            IN [start |-> Some(local_time)]
       [] mode = "CustomTimeStamp" -> [start |-> Some(MidnightUtc(self.timestamp.date))]
       [] mode = "SinceStart" -> [start |-> Some(self.started)]
       [] mode = "SinceLastUpdate" -> [start |-> Some(self.last_update)]
       [] OTHER -> [start |-> None]

----------------------------------------------------------------------------
(* Payload Compiler: the rest of set_presence up to the write *)

OptText(text) == IF text = "" THEN None ELSE Some(text)

Assets_of(self) ==
  [large_image |-> OptText(self.first_img.key),
   large_text  |-> OptText(self.first_img.text),
   small_image |-> OptText(self.second_img.key),
   small_text  |-> OptText(self.second_img.text)]

\* Buttons_of that takes a slot as soon as one of its two fields is filled
Buttons_of_EitherField(self) ==
  LET first_btn == [label |-> self.first_btn.label, url |-> self.first_btn.url]
      second_btn == [label |-> self.second_btn.label, url |-> self.second_btn.url]
      b1 == IF self.first_btn.label # "" \/ self.first_btn.url # ""
            THEN <<first_btn>> ELSE <<>>
      b2 == IF self.second_btn.label # "" \/ self.second_btn.url # ""
            THEN <<second_btn>> ELSE <<>>
  IN b1 \o b2

Buttons_of(self) ==
  LET first_btn == [label |-> self.first_btn.label, url |-> self.first_btn.url]
      second_btn == [label |-> self.second_btn.label, url |-> self.second_btn.url]
      b1 == IF self.first_btn.label # "" /\ self.first_btn.url # ""
            THEN <<first_btn>> ELSE <<>>
      b2 == IF self.second_btn.label # "" /\ self.second_btn.url # ""
            THEN <<second_btn>> ELSE <<>>
  IN b1 \o b2

\* Activity_of that attaches a party whenever the party size is not 0
Activity_of_PartyWithoutState(self, timestamp) ==
  LET buttons == Buttons_of(self)
      part_exists == self.party # 0
  IN [timestamps |-> Some(timestamp),
      assets     |-> Some(Assets_of(self)),
      details    |-> OptText(self.details),
      state      |-> OptText(self.state),
      buttons    |-> IF Len(buttons) > 0 THEN Some(buttons) ELSE None,
      party      |-> IF part_exists
                     THEN Some([size |-> <<self.party_of, self.party>>])
                     ELSE None]

Activity_of(self, timestamp) ==
  LET buttons == Buttons_of(self)
      part_exists == self.party # 0
  IN [timestamps |-> Some(timestamp),
      assets     |-> Some(Assets_of(self)),
      details    |-> OptText(self.details),
      state      |-> OptText(self.state),
      buttons    |-> IF Len(buttons) > 0 THEN Some(buttons) ELSE None,
      party      |-> IF part_exists /\ self.state # ""
                     THEN Some([size |-> <<self.party_of, self.party>>])
                     ELSE None]

----------------------------------------------------------------------------
(* App::set_presence *)

\* What a handler leaves: the App, the transport calls it made, and the
\* message of the expect() that panicked ("" when none did)
Outcome(self, calls, message) == [app |-> self, ops |-> calls, panicked |-> message]

\* set_presence without the identity check: the payload goes to the handle as it is
set_presence_NoReopen(self, io) ==
  LET activity == Activity_of(self, Timestamp_of(self, io.clk))
      sent == client_set_activity(self.client, activity, io.write_ok, io.clk.write)
  IN Outcome(self, <<sent.entry>>, IF sent.ok THEN "" ELSE "Failed to set activity")

\* set_presence that opens the new handle without closing the old one
set_presence_NoClose(self, io) ==
  LET reopen == self.id # self.client.client_id
      opened == client_connect(DiscordIpcClient_new(self.id), io.connect_ok)
  IN IF reopen /\ ~opened.ok
     THEN Outcome([self EXCEPT !.client = opened.client], <<opened.entry>>,
                  "Failed to connect to discord")
     ELSE
       LET self1 == IF reopen THEN [self EXCEPT !.client = opened.client] ELSE self
           calls == IF reopen THEN <<opened.entry>> ELSE <<>>
           activity == Activity_of(self1, Timestamp_of(self1, io.clk))
           sent == client_set_activity(self1.client, activity, io.write_ok, io.clk.write)
       IN Outcome(self1, Append(calls, sent.entry),
                  IF sent.ok THEN "" ELSE "Failed to set activity")

\* set_presence that closes and reopens the handle on every call
set_presence_AlwaysReopen(self, io) ==
  LET closed == client_close(self.client, io.close_ok)
      opened == client_connect(DiscordIpcClient_new(self.id), io.connect_ok)
  IN IF ~closed.ok
     THEN Outcome([self EXCEPT !.client = closed.client], <<closed.entry>>,
                  "Failed to disconnect while updating application")
     ELSE IF ~opened.ok
     THEN Outcome([self EXCEPT !.client = opened.client], <<closed.entry, opened.entry>>,
                  "Failed to connect to discord")
     ELSE
       LET self1 == [self EXCEPT !.client = opened.client]
           activity == Activity_of(self1, Timestamp_of(self1, io.clk))
           sent == client_set_activity(self1.client, activity, io.write_ok, io.clk.write)
       IN Outcome(self1, <<closed.entry, opened.entry, sent.entry>>,
                  IF sent.ok THEN "" ELSE "Failed to set activity")

\* io: what the environment answers during the call
\*   close_ok, connect_ok, write_ok: whether the transport call succeeds
\*   clk: the clock readings
set_presence(self, io) ==
  LET reopen == self.id # self.client.client_id
      closed == client_close(self.client, io.close_ok)
      opened == client_connect(DiscordIpcClient_new(self.id), io.connect_ok)
  IN IF reopen /\ ~closed.ok
     THEN Outcome([self EXCEPT !.client = closed.client], <<closed.entry>>,
                  "Failed to disconnect while updating application")
     ELSE IF reopen /\ ~opened.ok
     THEN Outcome([self EXCEPT !.client = opened.client], <<closed.entry, opened.entry>>,
                  "Failed to connect to discord")
     ELSE
       LET self1 == IF reopen THEN [self EXCEPT !.client = opened.client] ELSE self
           calls == IF reopen THEN <<closed.entry, opened.entry>> ELSE <<>>
           activity == Activity_of(self1, Timestamp_of(self1, io.clk))
           sent == client_set_activity(self1.client, activity, io.write_ok, io.clk.write)
       IN Outcome(self1, Append(calls, sent.entry),
                  IF sent.ok THEN "" ELSE "Failed to set activity")

----------------------------------------------------------------------------
(* App::load_preset *)

\* Preset::timestamp(): the preset's declared mode, the default mode when it declares none
DefaultTimestamp == "None"
preset_timestamp(preset) ==
  IF preset.Timestamp # None THEN preset.Timestamp[1] ELSE DefaultTimestamp

\* target when the preset's field is absent, else the preset's value
Merged(field, target) == IF field # None THEN field[1] ELSE target

\* load_preset that leaves the preset pending, so that later frames merge it again
load_preset_Persistent(self) ==
  IF self.menu_bar.loaded_preset # None
  THEN LET preset == self.menu_bar.loaded_preset[1]
       IN [self EXCEPT
             !.id = Merged(preset.ID, @),
             !.details = Merged(preset.Details, @),
             !.state = Merged(preset.State, @),
             !.party = Merged(preset.PartySize, @),
             !.party_of = Merged(preset.PartyMax, @),
             !.timestamp.timestamp = preset_timestamp(preset),
             !.first_img.key = Merged(preset.LargeKey, @),
             !.first_img.text = Merged(preset.LargeText, @),
             !.second_img.key = Merged(preset.SmallKey, @),
             !.second_img.text = Merged(preset.SmallText, @),
             !.first_btn.label = Merged(preset.Button1Text, @),
             !.first_btn.url = Merged(preset.Button1URL, @),
             !.second_btn.label = Merged(preset.Button2Text, @),
             !.second_btn.url = Merged(preset.Button2URL, @)]
  ELSE self

\* load_preset that resets the text fields the preset leaves out
load_preset_ClobberAbsent(self) ==
  IF self.menu_bar.loaded_preset # None
  THEN LET preset == self.menu_bar.loaded_preset[1]
       IN [self EXCEPT
             !.id = Merged(preset.ID, @),
             !.details = Merged(preset.Details, ""),
             !.state = Merged(preset.State, ""),
             !.party = Merged(preset.PartySize, @),
             !.party_of = Merged(preset.PartyMax, @),
             !.timestamp.timestamp = preset_timestamp(preset),
             !.first_img.key = Merged(preset.LargeKey, @),
             !.first_img.text = Merged(preset.LargeText, @),
             !.second_img.key = Merged(preset.SmallKey, @),
             !.second_img.text = Merged(preset.SmallText, @),
             !.first_btn.label = Merged(preset.Button1Text, @),
             !.first_btn.url = Merged(preset.Button1URL, @),
             !.second_btn.label = Merged(preset.Button2Text, @),
             !.second_btn.url = Merged(preset.Button2URL, @),
             !.menu_bar.loaded_preset = None]
  ELSE self

load_preset(self) ==
  IF self.menu_bar.loaded_preset # None
  THEN LET preset == self.menu_bar.loaded_preset[1]
       IN [self EXCEPT
             !.id = Merged(preset.ID, @),
             !.details = Merged(preset.Details, @),
             !.state = Merged(preset.State, @),
             !.party = Merged(preset.PartySize, @),
             !.party_of = Merged(preset.PartyMax, @),
             !.timestamp.timestamp = preset_timestamp(preset),
             !.first_img.key = Merged(preset.LargeKey, @),
             !.first_img.text = Merged(preset.LargeText, @),
             !.second_img.key = Merged(preset.SmallKey, @),
             !.second_img.text = Merged(preset.SmallText, @),
             !.first_btn.label = Merged(preset.Button1Text, @),
             !.first_btn.url = Merged(preset.Button1URL, @),
             !.second_btn.label = Merged(preset.Button2Text, @),
             !.second_btn.url = Merged(preset.Button2URL, @),
             !.menu_bar.loaded_preset = None]
  ELSE self

----------------------------------------------------------------------------
(* App::new: the state after construction *)

\* Storage::default(): what an absent or unreadable settings blob yields
StorageDefault ==
  [id |-> "", details |-> "", state |-> "", party |-> 0, party_of |-> 0,
   timestamp |-> DefaultTimestamp,
   large_image_key |-> "", large_image_label |-> "",
   small_image_key |-> "", small_image_label |-> "",
   first_btn_label |-> "", first_btn_url |-> "",
   second_btn_label |-> "", second_btn_url |-> "",
   autoconnect |-> FALSE]

\* a settings blob saved with every field filled in
StorageFilled ==
  [id |-> "A", details |-> "Coding", state |-> "Idle", party |-> 2, party_of |-> 10,
   timestamp |-> "SinceLastUpdate",
   large_image_key |-> "logo", large_image_label |-> "Logo",
   small_image_key |-> "", small_image_label |-> "Small",
   first_btn_label |-> "Site", first_btn_url |-> "https://a",
   second_btn_label |-> "Docs", second_btn_url |-> "",
   autoconnect |-> FALSE]

\* the settings blobs the persistence layer may supply at startup: the default
\* blob with any identity and either autoconnect setting; the form editors take
\* the other fields from there
Storages ==
  {[base EXCEPT !.id = i, !.autoconnect = auto] :
     base \in {StorageDefault}, i \in IdValues, auto \in BOOLEAN}

App_new(storage, io) ==
  LET client == DiscordIpcClient_new(storage.id)
      conn == client_connect(client, io.connect_ok)
      built(c) ==
        [menu_bar   |-> [autoconnect |-> storage.autoconnect, loaded_preset |-> None],
         first_btn  |-> [label |-> storage.first_btn_label, url |-> storage.first_btn_url],
         second_btn |-> [label |-> storage.second_btn_label, url |-> storage.second_btn_url],
         first_img  |-> [key |-> storage.large_image_key, text |-> storage.large_image_label],
         second_img |-> [key |-> storage.small_image_key, text |-> storage.small_image_label],
         id         |-> storage.id,
         details    |-> storage.details,
         state      |-> storage.state,
         party      |-> storage.party,
         party_of   |-> storage.party_of,
         timestamp  |-> [timestamp |-> storage.timestamp, date |-> DateOf(io.clk.date)],
         client     |-> c,
         connected  |-> FALSE,
         started    |-> io.clk.started,
         last_update |-> io.clk.update]
  IN IF ~storage.autoconnect
     THEN Outcome(built(client), <<>>, "")
     ELSE IF ~conn.ok
     THEN Outcome(built(conn.client), <<conn.entry>>, "Failed to autoconnect on startup")
     ELSE LET r == set_presence(built(conn.client), io)
          IN IF r.panicked # ""
             THEN Outcome(r.app, <<conn.entry>> \o r.ops, r.panicked)
             ELSE Outcome([r.app EXCEPT !.connected = TRUE], <<conn.entry>> \o r.ops, "")

\* the answers of the environment to one handler that starts at instant from
\* and runs with timestamp mode `mode`; readings nobody makes are not varied
Answers(from, mode, closes, connects, writes) ==
  {[close_ok |-> c, connect_ok |-> o, write_ok |-> w, clk |-> k] :
     c \in (IF closes THEN BOOLEAN ELSE {TRUE}),
     o \in (IF connects THEN BOOLEAN ELSE {TRUE}),
     w \in (IF writes THEN BOOLEAN ELSE {TRUE}),
     k \in {q \in Readings[from] :
              /\ q.date = from /\ q.started = from
              /\ mode # "LocalTime" => (q.hour = q.update /\ q.minute = q.update
                                        /\ q.second = q.update /\ q.utc = q.update)}}

Init ==
  \E storage \in Storages :
    \E io \in {[close_ok |-> TRUE, connect_ok |-> o, write_ok |-> w, clk |-> k] :
                 o \in BOOLEAN, w \in BOOLEAN,
                 k \in {q \in Readings[T0] :
                          /\ q.date = T0 /\ q.started = T0
                          /\ storage.timestamp # "LocalTime" =>
                               (q.hour = q.update /\ q.minute = q.update
                                /\ q.second = q.update /\ q.utc = q.update)
                          /\ ~storage.autoconnect => q.write = q.update}} :
      LET r == App_new(storage, io)
      IN /\ app = r.app
         /\ ops = r.ops
         /\ panicked = r.panicked
         /\ now = io.clk.write
         /\ event = "start"

----------------------------------------------------------------------------
(* App::update: one frame, one input event *)

\* the Connect button without the empty-identity guard
OnConnect_NoEmptyCheck(self, io) ==
  LET conn == client_connect(DiscordIpcClient_new(self.id), io.connect_ok)
      self1 == [self EXCEPT !.client = conn.client]
  IN IF ~conn.ok
     THEN Outcome(self1, <<conn.entry>>, "Failed to connect to discord")
     ELSE LET r == set_presence([self1 EXCEPT !.last_update = io.clk.update], io)
          IN IF r.panicked # ""
             THEN Outcome(r.app, <<conn.entry>> \o r.ops, r.panicked)
             ELSE Outcome([r.app EXCEPT !.connected = TRUE], <<conn.entry>> \o r.ops, "")

\* the Connect button that connects without pushing the presence
OnConnect_NoPush(self, io) ==
  IF self.id # ""
  THEN LET conn == client_connect(DiscordIpcClient_new(self.id), io.connect_ok)
           self1 == [self EXCEPT !.client = conn.client]
       IN IF ~conn.ok
          THEN Outcome(self1, <<conn.entry>>, "Failed to connect to discord")
          ELSE Outcome([self1 EXCEPT !.last_update = io.clk.update, !.connected = TRUE],
                       <<conn.entry>>, "")
  ELSE Outcome(self, <<>>, "")

\* the Connect button (enabled while not connected)
OnConnect(self, io) ==
  IF self.id # ""
  THEN LET conn == client_connect(DiscordIpcClient_new(self.id), io.connect_ok)
           self1 == [self EXCEPT !.client = conn.client]
       IN IF ~conn.ok
          THEN Outcome(self1, <<conn.entry>>, "Failed to connect to discord")
          ELSE LET r == set_presence([self1 EXCEPT !.last_update = io.clk.update], io)
               IN IF r.panicked # ""
                  THEN Outcome(r.app, <<conn.entry>> \o r.ops, r.panicked)
                  ELSE Outcome([r.app EXCEPT !.connected = TRUE],
                               <<conn.entry>> \o r.ops, "")
  ELSE Outcome(self, <<>>, "")

\* the Disconnect button (enabled while connected)
OnDisconnect(self, io) ==
  LET closed == client_close(self.client, io.close_ok)
      self1 == [self EXCEPT !.client = closed.client]
  IN IF ~closed.ok
     THEN Outcome(self1, <<closed.entry>>, "Failed to disconnect")
     ELSE Outcome([self1 EXCEPT !.connected = FALSE], <<closed.entry>>, "")

\* the Update Presence button (enabled while connected)
OnUpdate(self, io) ==
  set_presence([self EXCEPT !.last_update = io.clk.update], io)

\* the end of every frame: load_preset(), unless the handler panicked
Frame(kind, r, t) ==
  /\ app' = IF r.panicked = "" THEN load_preset(r.app) ELSE r.app
  /\ ops' = r.ops
  /\ panicked' = r.panicked
  /\ now' = t
  /\ event' = kind

Running == panicked = ""

EditId ==
  /\ Running
  /\ \E v \in IdValues : Frame("edit", Outcome([app EXCEPT !.id = v], <<>>, ""), now)

EditDetails ==
  /\ Running
  /\ \E v \in DetailsValues :
       Frame("edit", Outcome([app EXCEPT !.details = v], <<>>, ""), now)

EditState ==
  /\ Running
  /\ \E v \in StateValues :
       Frame("edit", Outcome([app EXCEPT !.state = v], <<>>, ""), now)

EditParty ==
  /\ Running
  /\ \E v \in PartyValues :
       Frame("edit", Outcome([app EXCEPT !.party = v], <<>>, ""), now)

EditPartyOf ==
  /\ Running
  /\ \E v \in PartyOfValues :
       Frame("edit", Outcome([app EXCEPT !.party_of = v], <<>>, ""), now)

\* Image::run: the slot after the user typed into its key or into its label
ImageEdits(img, typed) ==
  {[img EXCEPT !.key = v] : v \in typed.key} \cup {[img EXCEPT !.text = v] : v \in typed.text}

\* PresenceButton::run: the slot after the user typed into its label or into its url
ButtonEdits(btn, typed) ==
  {[btn EXCEPT !.label = v] : v \in typed.label} \cup {[btn EXCEPT !.url = v] : v \in typed.url}

EditFirstImg ==
  /\ Running
  /\ \E img \in ImageEdits(app.first_img, LargeImageValues) :
       Frame("edit", Outcome([app EXCEPT !.first_img = img], <<>>, ""), now)

EditSecondImg ==
  /\ Running
  /\ \E img \in ImageEdits(app.second_img, SmallImageValues) :
       Frame("edit", Outcome([app EXCEPT !.second_img = img], <<>>, ""), now)

EditFirstBtn ==
  /\ Running
  /\ \E btn \in ButtonEdits(app.first_btn, Button1Values) :
       Frame("edit", Outcome([app EXCEPT !.first_btn = btn], <<>>, ""), now)

EditSecondBtn ==
  /\ Running
  /\ \E btn \in ButtonEdits(app.second_btn, Button2Values) :
       Frame("edit", Outcome([app EXCEPT !.second_btn = btn], <<>>, ""), now)

EditTimestamp ==
  /\ Running
  /\ \E v \in TimestampEnum :
       Frame("edit", Outcome([app EXCEPT !.timestamp.timestamp = v], <<>>, ""), now)

ClickConnect ==
  /\ Running
  /\ ~app.connected
  /\ \E io \in Answers(now, app.timestamp.timestamp, FALSE, app.id # "", app.id # "") :
       /\ app.id = "" => io.clk.write = now
       /\ Frame("connect", OnConnect(app, io), io.clk.write)

ClickDisconnect ==
  /\ Running
  /\ app.connected
  /\ \E ok \in BOOLEAN :
       Frame("disconnect",
             OnDisconnect(app, [close_ok |-> ok, connect_ok |-> TRUE, write_ok |-> TRUE]),
             now)

\* the Update Presence button left enabled while disconnected
ClickUpdate_AlwaysEnabled ==
  /\ Running
  /\ \E io \in Answers(now, app.timestamp.timestamp, app.id # app.client.client_id,
                       app.id # app.client.client_id, TRUE) :
       Frame("update", OnUpdate(app, io), io.clk.write)

ClickUpdate ==
  /\ Running
  /\ app.connected
  /\ \E io \in Answers(now, app.timestamp.timestamp, app.id # app.client.client_id,
                       app.id # app.client.client_id, TRUE) :
       Frame("update", OnUpdate(app, io), io.clk.write)

\* the presets the menu bar can load in this specification
NoPreset ==
  [ID |-> None, Details |-> None, State |-> None, PartySize |-> None, PartyMax |-> None,
   Timestamp |-> None, LargeKey |-> None, LargeText |-> None, SmallKey |-> None,
   SmallText |-> None, Button1Text |-> None, Button1URL |-> None,
   Button2Text |-> None, Button2URL |-> None]

MenuPresets ==
  {[NoPreset EXCEPT !.ID = i, !.Details = s, !.Timestamp = t] :
     i \in {None, Some(""), Some("B")},
     s \in {None, Some("Coding")},
     t \in {None, Some("SinceStart")}}

\* menu_bar.run() loads a preset; the frame's load_preset() merges it
MenuLoadPreset ==
  /\ Running
  /\ \E preset \in MenuPresets :
       Frame("preset",
             Outcome([app EXCEPT !.menu_bar.loaded_preset = Some(preset)], <<>>, ""),
             now)

\* time passes between frames
Tick ==
  /\ Running
  /\ now < T0 + MaxTick
  /\ Frame("idle", Outcome(app, <<>>, ""), now + 1)

Next ==
  \/ EditId
  \/ EditDetails
  \/ EditState
  \/ EditParty
  \/ EditPartyOf
  \/ EditTimestamp
  \/ EditFirstImg
  \/ EditSecondImg
  \/ EditFirstBtn
  \/ EditSecondBtn
  \/ ClickConnect
  \/ ClickDisconnect
  \/ ClickUpdate
  \/ MenuLoadPreset
  \/ Tick

Spec == Init /\ [][Next]_vars

----------------------------------------------------------------------------
(* Preset Merge on its own: the frame that ends with a preset pending *)

\* the values a preset holds for the fields it names
PresetValues ==
  [ID |-> "B", Details |-> "Gaming", State |-> "Idle", PartySize |-> 5, PartyMax |-> 8,
   Timestamp |-> "LocalTime", LargeKey |-> "big", LargeText |-> "Big",
   SmallKey |-> "tiny", SmallText |-> "Tiny", Button1Text |-> "Join",
   Button1URL |-> "https://j", Button2Text |-> "Watch", Button2URL |-> "https://w"]

PresetFields == DOMAIN PresetValues

\* every preset that names a subset of the fields
MergePresets ==
  {[f \in PresetFields |-> IF f \in named THEN Some(PresetValues[f]) ELSE None] :
     named \in SUBSET PresetFields}

\* the Apps a preset is merged onto
MergeTargets ==
  LET io == [close_ok |-> TRUE, connect_ok |-> TRUE, write_ok |-> TRUE,
             clk |-> CHOOSE q \in Readings[T0] : q.write = T0]
      filled == App_new(StorageFilled, io).app
  IN {App_new(StorageDefault, io).app, [filled EXCEPT !.state = ""]}

\* menu_bar.run() has stored the preset; load_preset() has not run yet
InitMerge ==
  \E target \in MergeTargets, preset \in MergePresets :
    /\ app = [target EXCEPT !.menu_bar.loaded_preset = Some(preset)]
    /\ now = T0
    /\ panicked = ""
    /\ ops = <<>>
    /\ event = "menu"

\* the rest of that frame
MergeFrame ==
  /\ Running
  /\ app.menu_bar.loaded_preset # None
  /\ Frame("preset", Outcome(app, <<>>, ""), now)

NextMerge == MergeFrame

SpecMerge == InitMerge /\ [][NextMerge]_vars

----------------------------------------------------------------------------
(* Payload Compiler on its own: Update Presence clicked on a connected App   *)
(* whose form holds any combination of field values                          *)

\* the connected App the form values are put into
CompileBase ==
  LET io == [close_ok |-> TRUE, connect_ok |-> TRUE, write_ok |-> TRUE,
             clk |-> CHOOSE q \in Readings[T0] : q.write = T0]
  IN App_new([StorageFilled EXCEPT !.autoconnect = TRUE], io).app

InitCompile ==
  \E details \in {"", "Coding"}, state \in {"", "Playing"},
     party \in {0, 2, 32}, party_of \in {1, 10},
     mode \in TimestampEnum,
     k1 \in {"", "logo"}, t1 \in {"", "Logo"}, k2 \in {"", "dot"}, t2 \in {"", "Dot"},
     l1 \in {"", "Site"}, u1 \in {"", "https://a"},
     l2 \in {"", "Docs"}, u2 \in {"", "https://b"} :
    /\ app = [CompileBase EXCEPT
                !.details = details, !.state = state,
                !.party = party, !.party_of = party_of,
                !.timestamp.timestamp = mode,
                !.first_img = [key |-> k1, text |-> t1],
                !.second_img = [key |-> k2, text |-> t2],
                !.first_btn = [label |-> l1, url |-> u1],
                !.second_btn = [label |-> l2, url |-> u2]]
    /\ now = T0 + MaxTick
    /\ panicked = ""
    /\ ops = <<>>
    /\ event = "edit"

NextCompile == ClickUpdate

SpecCompile == InitCompile /\ [][NextCompile]_vars

----------------------------------------------------------------------------
(* Properties *)

\* the positions in ops of the payload writes, and of the successful ones
Writes == {i \in 1..Len(ops) : ops[i].op = "set_activity"}
Sent == {i \in Writes : ops[i].ok}

\* C1 as stated: in every reachable state in which the connection state is
\* Connected, the identity the handle was opened for equals the Field Model's
\* identity.
C1_BoundIdentityAlways ==
  app.connected => app.client.client_id = app.id

\* C1, amended: every payload is written on a handle opened for the Field
\* Model's identity, so that right after a write the bound identity equals the
\* Field Model's identity (between an identity edit or a preset merge and the
\* next send the two may differ while Connected).
C1_BoundIdentityAtSend ==
  \A i \in Writes : ops[i].id = app.id /\ app.client.client_id = app.id

\* a payload sent after the identity changed while Connected
C1_Witness ==
  /\ app.connected
  /\ Len(ops) = 3
  /\ ops[3].op = "set_activity" /\ ops[3].ok
  /\ ops[1].id # ops[3].id
  /\ ops[3].id = app.id

\* C2: an update requested while Connected(A) with Field Model identity B # A,
\* whose payload gets written, makes exactly one close of the A handle, then
\* exactly one connect for B, then the write on the B handle, and ends
\* Connected(B).
C2_CloseThenReopen ==
  [][(/\ panicked = ""
      /\ app.connected
      /\ app.id # app.client.client_id
      /\ event' = "update"
      /\ panicked' = "")
     => (/\ Len(ops') = 3
         /\ ops'[1] = [op |-> "close", id |-> app.client.client_id, ok |-> TRUE]
         /\ ops'[2] = [op |-> "connect", id |-> app.id, ok |-> TRUE]
         /\ ops'[3].op = "set_activity"
         /\ ops'[3].id = app.id /\ ops'[3].open /\ ops'[3].ok
         /\ app'.connected
         /\ app'.client = [client_id |-> app.id, open |-> TRUE])]_vars

\* an update that closed the A handle, reopened for B and wrote the payload
C2_Witness ==
  /\ event = "update"
  /\ panicked = ""
  /\ app.connected
  /\ Len(ops) = 3
  /\ ops[1].op = "close" /\ ops[2].op = "connect"
  /\ ops[1].id = "A" /\ ops[2].id = "B"
  /\ ops[3].ok
  /\ app.client.client_id = "B"

\* C3: a Connect click with an empty identity is aborted: the App is left as it
\* was (Disconnected), no transport call is made (no handle opened, no payload
\* sent) and the session goes on.
C3_EmptyIdentityConnect ==
  [][(/\ panicked = ""
      /\ ~app.connected
      /\ app.id = ""
      /\ event' = "connect")
     => (/\ app' = app
         /\ ~app'.connected
         /\ ops' = <<>>
         /\ panicked' = "")]_vars

\* the state a Connect click with an empty identity leaves
C3_Witness ==
  /\ event = "connect"
  /\ app.id = ""
  /\ ~app.connected
  /\ ~app.client.open
  /\ ops = <<>>
  /\ panicked = ""

\* C4 as stated: when the handshake fails during connect (Connect button or
\* startup autoconnect) the state remains Disconnected, no payload is sent and
\* the session is not terminated, so the user can click Connect again.
C4_HandshakeFailureSurvivable ==
  (/\ event \in {"connect", "start"}
   /\ \E i \in 1..Len(ops) : ops[i].op = "connect" /\ ~ops[i].ok)
  => (/\ ~app.connected
      /\ Writes = {}
      /\ panicked = "")

\* C5 as stated: a Disconnect click from Connected ends with connected false,
\* also when the transport close fails.
C5_DisconnectAlwaysDisconnects ==
  event = "disconnect" => ~app.connected

\* C6 as stated: an update whose transport write fails leaves the state
\* Connected with the same bound identity and the session running (the action
\* alone is aborted).
C6_FailedSendKeepsState ==
  (/\ event = "update"
   /\ \E i \in Writes : ~ops[i].ok)
  => (/\ app.connected
      /\ app.client.open
      /\ \A i \in Writes : app.client.client_id = ops[i].id
      /\ panicked = "")

\* what the Resolver returns with mode SinceLastUpdate in the current state
SinceLastUpdateInstant ==
  Timestamp_of([app EXCEPT !.timestamp.timestamp = "SinceLastUpdate"],
               CHOOSE q \in Readings[now] : TRUE).start[1]

\* C7 as stated: after a successful send, on every path that sends, the
\* Resolver with mode SinceLastUpdate returns an instant >= the instant of that
\* send.
C7_LastUpdateIsPushTime ==
  \A i \in Sent : SinceLastUpdateInstant >= ops[i].at

\* C8: the action that takes the state to Connected (Connect button, startup
\* autoconnect) makes exactly the handshake for the Field Model's identity and
\* then one write, of the payload compiled from the Field Model as it is.
C8_ConnectPushesOnce ==
  (/\ event \in {"connect", "start"}
   /\ app.connected)
  => (/\ Len(ops) = 2
      /\ ops[1] = [op |-> "connect", id |-> app.id, ok |-> TRUE]
      /\ ops[2].op = "set_activity"
      /\ ops[2].id = app.id /\ ops[2].open /\ ops[2].ok
      /\ ops[2].activity = Activity_of(app, ops[2].activity.timestamps[1])
      /\ ops[2].activity.details = (IF app.details = "" THEN None ELSE Some(app.details))
      /\ ops[2].activity.state = (IF app.state = "" THEN None ELSE Some(app.state)))

\* a Connect click that connected and pushed
C8_Witness ==
  /\ event = "connect"
  /\ app.connected
  /\ panicked = ""
  /\ Len(ops) = 2
  /\ ops[2].op = "set_activity" /\ ops[2].ok
  /\ ops[2].activity.state = Some("Idle")

\* C9: every payload write is made on an open handle, and an update happens
\* only from a state in which connected is true.
C9_WriteOnlyWhileOpen ==
  /\ \A i \in Writes : ops[i].open
  /\ [][(/\ \A i \in 1..Len(ops') : (ops'[i].op = "set_activity" => ops'[i].open)
          /\ (event' = "update" => app.connected))]_vars

\* an update that wrote its payload on the open handle
C9_Witness ==
  /\ event = "update"
  /\ Len(ops) = 1
  /\ ops[1].op = "set_activity" /\ ops[1].open /\ ops[1].ok
  /\ app.connected /\ app.client.open

\* C10: the merge gives every field the preset names the preset's value and
\* leaves every field the preset does not name as it was.
C10_MergeFieldwise ==
  [][app.menu_bar.loaded_preset # None =>
       LET preset == app.menu_bar.loaded_preset[1]
           Rule(field, before, after) ==
             IF field # None THEN after = field[1] ELSE after = before
       IN /\ Rule(preset.ID, app.id, app'.id)
          /\ Rule(preset.Details, app.details, app'.details)
          /\ Rule(preset.State, app.state, app'.state)
          /\ Rule(preset.PartySize, app.party, app'.party)
          /\ Rule(preset.PartyMax, app.party_of, app'.party_of)
          /\ Rule(preset.LargeKey, app.first_img.key, app'.first_img.key)
          /\ Rule(preset.LargeText, app.first_img.text, app'.first_img.text)
          /\ Rule(preset.SmallKey, app.second_img.key, app'.second_img.key)
          /\ Rule(preset.SmallText, app.second_img.text, app'.second_img.text)
          /\ Rule(preset.Button1Text, app.first_btn.label, app'.first_btn.label)
          /\ Rule(preset.Button1URL, app.first_btn.url, app'.first_btn.url)
          /\ Rule(preset.Button2Text, app.second_btn.label, app'.second_btn.label)
          /\ Rule(preset.Button2URL, app.second_btn.url, app'.second_btn.url)]_vars

\* a preset naming State and PartySize but not Details or PartyMax, merged onto
\* details "Coding", state "", party_of 10
C10_Witness ==
  /\ event = "preset"
  /\ app.menu_bar.loaded_preset = None
  /\ app.details = "Coding"
  /\ app.state = "Idle"
  /\ app.party = 5
  /\ app.party_of = 10

\* the Field Model part of the App
FieldModel(self) ==
  [id |-> self.id, details |-> self.details, state |-> self.state,
   party |-> self.party, party_of |-> self.party_of,
   timestamp |-> self.timestamp,
   first_img |-> self.first_img, second_img |-> self.second_img,
   first_btn |-> self.first_btn, second_btn |-> self.second_btn]

\* C11 as stated: merging a preset in which every field is absent leaves the
\* whole Field Model unchanged, timestamp mode included.
C11_AllAbsentNoOp ==
  [][app.menu_bar.loaded_preset = Some(NoPreset)
       => FieldModel(app') = FieldModel(app)]_vars

\* the fields of the Field Model in which two Apps differ
Changed(a, b) ==
  LET fa == FieldModel(a)
      fb == FieldModel(b)
  IN IF fa = fb THEN {} ELSE {f \in DOMAIN fa : fa[f] # fb[f]}

\* C12: every frame ends with no preset pending; a frame that handles anything
\* but a preset load or an edit leaves the Field Model as it was, and an edit
\* changes nothing but the one field edited: a merged preset is never applied
\* again on a later frame.
C12_PresetAppliedOnce ==
  /\ app.menu_bar.loaded_preset = None
  /\ [][(/\ app'.menu_bar.loaded_preset = None
          /\ (event' \in {"idle", "connect", "disconnect", "update"}
                => Changed(app, app') = {})
          /\ (event' = "edit" => Cardinality(Changed(app, app')) <= 1))]_vars

\* after a preset naming Details was merged, an edit of another field: the
\* preset's details are still there, the edited identity is not the preset's
C12_Witness ==
  /\ event = "edit"
  /\ panicked = ""
  /\ app.menu_bar.loaded_preset = None
  /\ app.details = "Coding"
  /\ app.id = "A"

\* C13: the written payload has a party block exactly when party # 0 and state
\* is not empty, and the block then carries <<party_of, party>> (capacity, size).
C13_PartyBlock ==
  \A i \in Writes :
    LET party == ops[i].activity.party
    IN /\ (party # None) <=> (app.party # 0 /\ app.state # "")
       /\ party # None => party[1].size = <<app.party_of, app.party>>

\* the payload of state "Playing", size 2 of 10, no details, no buttons
C13_Witness ==
  \E i \in Writes :
    /\ ops[i].activity.party = Some([size |-> <<10, 2>>])
    /\ ops[i].activity.state = Some("Playing")
    /\ ops[i].activity.details = None
    /\ ops[i].activity.buttons = None

\* C14: a button slot is in the written payload exactly when its label and its
\* url are both non-empty, whatever the other slot holds; button 1 comes before
\* button 2; with no slot in, the payload has no buttons field.
C14_ButtonSlots ==
  \A i \in Writes :
    LET buttons == ops[i].activity.buttons
        in1 == app.first_btn.label # "" /\ app.first_btn.url # ""
        in2 == app.second_btn.label # "" /\ app.second_btn.url # ""
    IN /\ (~in1 /\ ~in2) => buttons = None
       /\ (in1 /\ ~in2) => buttons = Some(<<app.first_btn>>)
       /\ (~in1 /\ in2) => buttons = Some(<<app.second_btn>>)
       /\ (in1 /\ in2) => buttons = Some(<<app.first_btn, app.second_btn>>)

\* a payload with only button 2, its slot 1 holding a label without a url
C14_Witness ==
  \E i \in Writes :
    /\ app.first_btn = [label |-> "Site", url |-> ""]
    /\ ops[i].activity.buttons = Some(<<[label |-> "Docs", url |-> "https://b"]>>)

\* C15 as stated: an image key is in the written payload exactly when the
\* slot's key is non-empty, and a slot's label is in it only when the label is
\* non-empty and the same slot's key is in it.
C15_ImageSlots ==
  \A i \in Writes :
    LET assets == ops[i].activity.assets[1]
    IN /\ (assets.large_image # None) <=> (app.first_img.key # "")
       /\ (assets.small_image # None) <=> (app.second_img.key # "")
       /\ (assets.large_text # None)
            => (app.first_img.text # "" /\ assets.large_image # None)
       /\ (assets.small_text # None)
            => (app.second_img.text # "" /\ assets.small_image # None)

\* C16 as stated: the written payload has a timestamp block exactly when the
\* timestamp mode is not None, and the block then carries a start instant.
C16_TimestampBlock ==
  \A i \in Writes :
    LET timestamps == ops[i].activity.timestamps
    IN /\ (timestamps # None) <=> (app.timestamp.timestamp # "None")
       /\ timestamps # None => timestamps[1].start # None

\* C17 as stated: with details and state empty, both image slots empty, both
\* button slots empty and party 0, the written payload has no details, state,
\* assets, buttons or party.
C17_EmptyFormEmptyPayload ==
  \A i \in Writes :
    (/\ app.details = "" /\ app.state = ""
     /\ app.first_img = [key |-> "", text |-> ""]
     /\ app.second_img = [key |-> "", text |-> ""]
     /\ app.first_btn = [label |-> "", url |-> ""]
     /\ app.second_btn = [label |-> "", url |-> ""]
     /\ app.party = 0)
    => (/\ ops[i].activity.details = None
        /\ ops[i].activity.state = None
        /\ ops[i].activity.assets = None
        /\ ops[i].activity.buttons = None
        /\ ops[i].activity.party = None)

\* C18 as stated: with mode LocalTime the start instant of every written
\* payload is the local midnight of one instant t read during the call,
\* t - (hour * 3600 + minute * 60 + second) of t's local time, also when the
\* clock ticks while the handler runs.
C18_LocalDayStartIsLocalMidnight ==
  \A i \in Writes :
    app.timestamp.timestamp = "LocalTime"
      => \E t \in Clock :
           /\ t <= ops[i].at
           /\ ops[i].activity.timestamps = Some([start |-> Some(t - LocalSecondOfDay(t))])

\* C19: an Update Presence frame that starts with the form's identity equal to
\* the identity the handle is bound to makes one transport call, the write, and
\* leaves the handle and the connected flag as they were; a Connect frame, which
\* binds a new handle to the form's identity before it sends, closes nothing.
C19_UnchangedIdentityNoReopen ==
  [][(/\ (event' = "update" /\ app.id = app.client.client_id)
          => (/\ \A i \in DOMAIN ops' : ops'[i].op = "set_activity"
              /\ app'.client = app.client
              /\ app'.connected = app.connected)
      /\ (event' = "connect")
          => \A i \in DOMAIN ops' : ops'[i].op # "close")]_vars

\* an Update Presence frame that made the write its only transport call, on a
\* handle bound to identity "B" that a startup autoconnect did not open
C19_Witness ==
  /\ event = "update" /\ panicked = ""
  /\ Len(ops) = 1 /\ ops[1].op = "set_activity" /\ ops[1].id = "B"
  /\ app.id = "B" /\ app.client.client_id = "B" /\ ~app.menu_bar.autoconnect

\* C20 as stated: no handler opens a transport connection for the empty identity.
C20_NoConnectionForEmptyIdentity ==
  \A i \in DOMAIN ops : (ops[i].op = "connect" /\ ops[i].ok) => ops[i].id # ""

====
